---- MODULE Spec2Model ----
(***************************************************************************)
(* Trickster cache abstraction: origin registration                        *)
(* (internal/routing/registration/registration.go) and the cache           *)
(* instrumentation helpers of package cache (ObserveCacheMiss,             *)
(* ObserveCacheDel, CacheError, ObserveCacheOperation, ObserveCacheEvent,  *)
(* ObserveCacheSizeChange).                                                *)
(***************************************************************************)
EXTENDS Integers, Sequences, FiniteSets, TLC

VARIABLES
    \* ---- registration (RegisterProxyRoutes) ----
    Origins,      \* config.Origins: origin name -> [Type, CacheName]
    pending,      \* origin names the range loop has not visited yet
    pc,           \* position of RegisterProxyRoutes
    k,            \* loop variable k (origin name)
    c,            \* local c (cache reference, 0 = nil)
    err,          \* local err (TRUE = non-nil)
    client,       \* local client (Variant "nil" = nil interface)
    Clients,      \* proxy.Clients: origin name -> client
    routes,       \* origin name -> number of RegisterRoutes(k, o) invocations
    trace,        \* history of the loop body's steps, <<step, origin name>>
    \* ---- origin type dispatch on its own ----
    typeIn,       \* an origin type string
    selected,     \* the variant the switch selected for typeIn
    \* ---- instrumentation ----
    CacheObjectOperations,  \* metrics.CacheObjectOperations (counter vec)
    CacheByteOperations,    \* metrics.CacheByteOperations (counter vec)
    CacheEvents,            \* metrics.CacheEvents (counter vec)
    CacheObjects,           \* metrics.CacheObjects (gauge vec)
    CacheBytes,             \* metrics.CacheBytes (gauge vec)
    ret,                    \* what the last helper returned: [data, err]
    lastCall,               \* the last helper call made, with its arguments
    prevCall,               \* the helper call made before the last one
    ncalls,                 \* number of helper calls made so far
    opCalls,                \* history: ObserveCacheOperation calls per key
    opPosBytes,             \* history: sum of their positive byte arguments
    \* ---- concurrent callers of the instrumentation ----
    ppc,          \* per-process position inside its helper call
    pcall         \* per-process call in progress

regVars == <<Origins, pending, pc, k, c, err, client, Clients, routes, trace>>
typeVars == <<typeIn, selected>>
metricVars == <<CacheObjectOperations, CacheByteOperations, CacheEvents,
                CacheObjects, CacheBytes>>
callVars == <<ret, lastCall, prevCall, ncalls, opCalls, opPosBytes>>
procVars == <<ppc, pcall>>
vars == <<regVars, typeVars, metricVars, callVars, procVars>>

----------------------------------------------------------------------------
(* Bounds *)

MaxOrigins == 2

MaxCalls == 2

NumProcs == 2

----------------------------------------------------------------------------
(* Strings as sequences of characters, and strings.ToLower *)

UpperChars == <<"A","B","C","D","E","F","G","H","I","J","K","L","M",
                "N","O","P","Q","R","S","T","U","V","W","X","Y","Z">>

LowerChars == <<"a","b","c","d","e","f","g","h","i","j","k","l","m",
                "n","o","p","q","r","s","t","u","v","w","x","y","z">>

IsUpper(ch) == \E i \in 1..Len(UpperChars) : UpperChars[i] = ch

ToLowerChar(ch) ==
    IF IsUpper(ch)
    THEN LowerChars[CHOOSE i \in 1..Len(UpperChars) : UpperChars[i] = ch]
    ELSE ch

ToLower(s) == [i \in 1..Len(s) |-> ToLowerChar(s[i])]

OtPrometheus == <<"p","r","o","m","e","t","h","e","u","s">>

OtInfluxDb == <<"i","n","f","l","u","x","d","b">>

\* The variant without the lower-casing of line 47.
ClientVariantCaseSensitive(t) ==
    IF t = OtPrometheus \/ t = <<>> THEN "prometheus"
    ELSE IF t = OtInfluxDb THEN "influxdb"
    ELSE "nil"

\* switch strings.ToLower(o.Type): which client the switch constructs.
ClientVariant(t) ==
    LET lt == ToLower(t) IN
    IF lt = OtPrometheus \/ lt = <<>> THEN "prometheus"
    ELSE IF lt = OtInfluxDb THEN "influxdb"
    ELSE "nil"

----------------------------------------------------------------------------
(* Configuration and registry *)

AllOriginNames == <<"a", "b", "c", "d">>

OriginNames == {AllOriginNames[i] : i \in 1..MaxOrigins}

TestType == <<"t","e","s","t">>

RegTypes == { <<>>,
              <<"P","r","o","m","e","t","h","e","u","s">>,
              <<"i","n","f","l","u","x","d","b">>,
              TestType }

CacheNames == {"default", "shared", "missing"}

OriginConfigs == [Type : RegTypes, CacheName : CacheNames]

\* The named cache instances built at startup: name -> reference.
CacheRegistry == [n \in {"default", "shared"} |->
                    IF n = "default" THEN 1 ELSE 2]

NilCache == 0

\* cache.GetCache(name): the instance and a nil error, or nil and an error.
GetCache(name) ==
    IF name \in DOMAIN CacheRegistry
    THEN [c |-> CacheRegistry[name], err |-> FALSE]
    ELSE [c |-> NilCache, err |-> TRUE]

\* log.Fatal(1, ...): the process exits.
LogFatal == "fatal"

NoConfig == [Type |-> <<>>, CacheName |-> ""]

NilClient == [Variant |-> "nil", Name |-> "", Config |-> NoConfig,
              Cache |-> NilCache]

NoOrigin == ""

----------------------------------------------------------------------------
(* RegisterProxyRoutes *)

RegInit ==
    /\ \E names \in SUBSET OriginNames : Origins \in [names -> OriginConfigs]
    /\ pending = DOMAIN Origins
    /\ pc = "range"
    /\ k = NoOrigin
    /\ c = NilCache
    /\ err = FALSE
    /\ client = NilClient
    /\ Clients = << >>
    /\ routes = [n \in DOMAIN Origins |-> 0]
    /\ trace = << >>

\* for k, o := range config.Origins, with the declarations of lines 39-41.
RangeNext ==
    /\ pc = "range"
    /\ pending # {}
    /\ \E n \in pending :
          /\ k' = n
          /\ pending' = pending \ {n}
    /\ client' = NilClient
    /\ c' = NilCache
    /\ err' = FALSE
    /\ pc' = "getcache"
    /\ UNCHANGED <<Origins, Clients, routes, trace>>

RangeEnd ==
    /\ pc = "range"
    /\ pending = {}
    /\ pc' = "done"
    /\ UNCHANGED <<Origins, pending, k, c, err, client, Clients, routes, trace>>

\* Lines 43-46 without the err check.
ResolveCacheUnchecked ==
    /\ pc = "getcache"
    /\ LET r == GetCache(Origins[k].CacheName) IN
          /\ c' = r.c
          /\ err' = r.err
          /\ pc' = "switch"
    /\ trace' = Append(trace, <<"resolve", k>>)
    /\ UNCHANGED <<Origins, pending, k, client, Clients, routes>>

\* c, err = cache.GetCache(o.CacheName); if err != nil { log.Fatal(...) }
ResolveCache ==
    /\ pc = "getcache"
    /\ LET r == GetCache(Origins[k].CacheName) IN
          /\ c' = r.c
          /\ err' = r.err
          /\ pc' = IF r.err THEN LogFatal ELSE "switch"
    /\ trace' = Append(trace, <<"resolve", k>>)
    /\ UNCHANGED <<Origins, pending, k, client, Clients, routes>>

\* The switch, with the client given a copy of the cache, not the reference.
SelectClientCopy ==
    /\ pc = "switch"
    /\ LET v == ClientVariant(Origins[k].Type) IN
          IF v = "nil"
          THEN UNCHANGED <<client, trace>>
          ELSE /\ client' = [Variant |-> v, Name |-> k, Config |-> Origins[k],
                             Cache |-> c + 10 * (Len(trace) + 1)]
               /\ trace' = Append(trace, <<"construct", k>>)
    /\ pc' = "register"
    /\ UNCHANGED <<Origins, pending, k, c, err, Clients, routes>>

\* The switch, with the client named after its cache, not its origin.
SelectClientMisnamed ==
    /\ pc = "switch"
    /\ LET v == ClientVariant(Origins[k].Type) IN
          IF v = "nil"
          THEN UNCHANGED <<client, trace>>
          ELSE /\ client' = [Variant |-> v, Name |-> Origins[k].CacheName,
                             Config |-> Origins[k], Cache |-> c]
               /\ trace' = Append(trace, <<"construct", k>>)
    /\ pc' = "register"
    /\ UNCHANGED <<Origins, pending, k, c, err, Clients, routes>>

\* switch strings.ToLower(o.Type) { ... client = &X.Client{Name: k, Config: o, Cache: c} }
SelectClient ==
    /\ pc = "switch"
    /\ LET v == ClientVariant(Origins[k].Type) IN
          IF v = "nil"
          THEN UNCHANGED <<client, trace>>
          ELSE /\ client' = [Variant |-> v, Name |-> k, Config |-> Origins[k],
                             Cache |-> c]
               /\ trace' = Append(trace, <<"construct", k>>)
    /\ pc' = "register"
    /\ UNCHANGED <<Origins, pending, k, c, err, Clients, routes>>

\* client.RegisterRoutes(k, o): a method call on a nil interface value panics.
RegisterRoutes ==
    /\ pc = "register"
    /\ IF client.Variant = "nil"
       THEN /\ pc' = "panic"
            /\ UNCHANGED <<routes, trace>>
       ELSE /\ routes' = [routes EXCEPT ![k] = @ + 1]
            /\ trace' = Append(trace, <<"routes", k>>)
            /\ pc' = "record"
    /\ UNCHANGED <<Origins, pending, k, c, err, client, Clients>>

\* proxy.Clients[k] = client
RecordClient ==
    /\ pc = "record"
    /\ Clients' = [n \in (DOMAIN Clients) \cup {k} |->
                      IF n = k THEN client ELSE Clients[n]]
    /\ trace' = Append(trace, <<"record", k>>)
    /\ pc' = "range"
    /\ UNCHANGED <<Origins, pending, k, c, err, client, routes>>

----------------------------------------------------------------------------
(* Instrumentation: labels, metric vectors, return values *)

MetricCaches == {"c1", "c2"}

CacheTypes == {"memory"}

Operations == {"get", "del"}

Statuses == {"hit", "miss", "none"}

KeyNotCachedMsg == <<"key [", "%s", "] could not be read">>

ClosedMsg == <<"cache is closed">>

ErrorMsgs == {KeyNotCachedMsg, ClosedMsg}

EvictionReason == <<"ttl">>

EventNames == {"error", "eviction"}

Reasons == ErrorMsgs \cup {EvictionReason}

CacheKeys == {"k1"}

ByteArgs == {-1, 0, 2}

DelCounts == {0, 1, 2}

SizeArgs == {0, 2}

OpKeys == MetricCaches \X CacheTypes \X Operations \X Statuses

EventKeys == MetricCaches \X CacheTypes \X EventNames \X Reasons

GaugeKeys == MetricCaches \X CacheTypes

\* fmt.Sprintf(format, arg) with one string operand: the first %s verb takes
\* the operand, later ones have none, and an operand no verb takes is
\* reported after the text.
Sprintf(format, arg) ==
    LET verbs == {i \in 1..Len(format) : format[i] = "%s"}
        first == CHOOSE i \in verbs : \A j \in verbs : i <= j
        body == [i \in 1..Len(format) |->
                    IF format[i] = "%s"
                    THEN IF i = first THEN arg ELSE "%!s(MISSING)"
                    ELSE format[i]]
    IN  IF verbs = {} THEN body \o <<"%!(EXTRA string=", arg, ")">> ELSE body

\* fmt.Errorf: always a non-nil error carrying the formatted text.
Errorf(format, arg) == [nil |-> FALSE, text |-> Sprintf(format, arg)]

NilErr == [nil |-> TRUE, text |-> << >>]

\* A helper's results; void marks a helper that returns nothing.
Returned(isVoid, dataIsNil, e) == [void |-> isVoid, dataNil |-> dataIsNil, err |-> e]

NoReturn == Returned(TRUE, TRUE, NilErr)

CallRecord(fn, cache, cacheType, cacheKey, operation, status, reason, n1, n2) ==
    [fn |-> fn, cache |-> cache, cacheType |-> cacheType, cacheKey |-> cacheKey,
     operation |-> operation, status |-> status, reason |-> reason,
     n1 |-> n1, n2 |-> n2]

NoCall == CallRecord("", "", "", "", "", "", << >>, 0, 0)

MetricsInit ==
    /\ CacheObjectOperations = [key \in OpKeys |-> 0]
    /\ CacheByteOperations = [key \in OpKeys |-> 0]
    /\ CacheEvents = [key \in EventKeys |-> 0]
    /\ CacheObjects = [key \in GaugeKeys |-> 0]
    /\ CacheBytes = [key \in GaugeKeys |-> 0]

CallsInit ==
    /\ ret = NoReturn
    /\ lastCall = NoCall
    /\ prevCall = NoCall
    /\ ncalls = 0
    /\ opCalls = [key \in OpKeys |-> 0]
    /\ opPosBytes = [key \in OpKeys |-> 0]

----------------------------------------------------------------------------
(* The instrumentation helpers *)

\* ObserveCacheOperation adding bytes whatever their sign.
ObserveCacheOperationUnguarded(cache, cacheType, operation, status, bytes) ==
    /\ CacheObjectOperations' =
          [CacheObjectOperations EXCEPT ![<<cache, cacheType, operation, status>>] = @ + 1]
    /\ CacheByteOperations' =
          [CacheByteOperations EXCEPT ![<<cache, cacheType, operation, status>>] = @ + bytes]

\* CacheObjectOperations.WithLabelValues(...).Inc();
\* if bytes > 0 { CacheByteOperations.WithLabelValues(...).Add(bytes) }
ObserveCacheOperation(cache, cacheType, operation, status, bytes) ==
    /\ CacheObjectOperations' =
          [CacheObjectOperations EXCEPT ![<<cache, cacheType, operation, status>>] = @ + 1]
    /\ CacheByteOperations' =
          IF bytes > 0
          THEN [CacheByteOperations EXCEPT ![<<cache, cacheType, operation, status>>] = @ + bytes]
          ELSE CacheByteOperations

\* History of the calls made to ObserveCacheOperation, by whoever makes them.
TallyOperation(cache, cacheType, operation, status, bytes) ==
    /\ opCalls' = [opCalls EXCEPT ![<<cache, cacheType, operation, status>>] = @ + 1]
    /\ opPosBytes' =
          [opPosBytes EXCEPT ![<<cache, cacheType, operation, status>>] =
              @ + (IF bytes > 0 THEN bytes ELSE 0)]

\* CacheEvents.WithLabelValues(cache, cacheType, event, reason).Inc()
ObserveCacheEvent(cache, cacheType, event, reason) ==
    CacheEvents' = [CacheEvents EXCEPT ![<<cache, cacheType, event, reason>>] = @ + 1]

\* ObserveCacheMiss reporting one byte read.
ObserveCacheMissCounted(cacheKey, cacheName, cacheType) ==
    /\ ObserveCacheOperation(cacheName, cacheType, "get", "miss", 1)
    /\ TallyOperation(cacheName, cacheType, "get", "miss", 1)
    /\ ret' = Returned(FALSE, TRUE,
                       Errorf(<<"value for key [", "%s", "] not in cache">>, cacheKey))
    /\ UNCHANGED <<CacheEvents, CacheObjects, CacheBytes>>

\* ObserveCacheOperation(cacheName, cacheType, "get", "miss", 0)
\* return nil, fmt.Errorf("value for key [%s] not in cache", cacheKey)
ObserveCacheMiss(cacheKey, cacheName, cacheType) ==
    /\ ObserveCacheOperation(cacheName, cacheType, "get", "miss", 0)
    /\ TallyOperation(cacheName, cacheType, "get", "miss", 0)
    /\ ret' = Returned(FALSE, TRUE,
                       Errorf(<<"value for key [", "%s", "] not in cache">>, cacheKey))
    /\ UNCHANGED <<CacheEvents, CacheObjects, CacheBytes>>

\* ObserveCacheOperation(cache, cacheType, "del", "none", count)
ObserveCacheDel(cache, cacheType, count) ==
    /\ ObserveCacheOperation(cache, cacheType, "del", "none", count)
    /\ TallyOperation(cache, cacheType, "del", "none", count)
    /\ ret' = NoReturn
    /\ UNCHANGED <<CacheEvents, CacheObjects, CacheBytes>>

\* ObserveCacheEvent(cacheName, cacheType, "error", msg)
\* return nil, fmt.Errorf(msg, cacheKey)
CacheError(cacheKey, cacheName, cacheType, msg) ==
    /\ ObserveCacheEvent(cacheName, cacheType, "error", msg)
    /\ ret' = Returned(FALSE, TRUE, Errorf(msg, cacheKey))
    /\ UNCHANGED <<CacheObjectOperations, CacheByteOperations, CacheObjects,
                   CacheBytes, opCalls, opPosBytes>>

\* ObserveCacheSizeChange adding to the gauges.
ObserveCacheSizeChangeAdding(cache, cacheType, byteCount, objectCount) ==
    /\ CacheObjects' = [CacheObjects EXCEPT ![<<cache, cacheType>>] = @ + objectCount]
    /\ CacheBytes' = [CacheBytes EXCEPT ![<<cache, cacheType>>] = @ + byteCount]

\* CacheObjects.WithLabelValues(cache, cacheType).Set(float64(objectCount))
\* CacheBytes.WithLabelValues(cache, cacheType).Set(float64(byteCount))
\* (float64 holds every count of the model's range exactly)
ObserveCacheSizeChange(cache, cacheType, byteCount, objectCount) ==
    /\ CacheObjects' = [CacheObjects EXCEPT ![<<cache, cacheType>>] = objectCount]
    /\ CacheBytes' = [CacheBytes EXCEPT ![<<cache, cacheType>>] = byteCount]

----------------------------------------------------------------------------
(* A backend calling the helpers, one call at a time *)

CallObserveCacheOperation ==
    /\ ncalls < MaxCalls
    /\ \E cache \in MetricCaches, cacheType \in CacheTypes,
          operation \in Operations, status \in Statuses, bytes \in ByteArgs :
          /\ ObserveCacheOperation(cache, cacheType, operation, status, bytes)
          /\ TallyOperation(cache, cacheType, operation, status, bytes)
          /\ lastCall' = CallRecord("ObserveCacheOperation", cache, cacheType, "",
                                    operation, status, << >>, bytes, 0)
    /\ ret' = NoReturn
    /\ prevCall' = lastCall
    /\ ncalls' = ncalls + 1
    /\ UNCHANGED <<CacheEvents, CacheObjects, CacheBytes>>

CallObserveCacheMiss ==
    /\ ncalls < MaxCalls
    /\ \E cacheKey \in CacheKeys, cache \in MetricCaches, cacheType \in CacheTypes :
          /\ ObserveCacheMiss(cacheKey, cache, cacheType)
          /\ lastCall' = CallRecord("ObserveCacheMiss", cache, cacheType, cacheKey,
                                    "", "", << >>, 0, 0)
    /\ prevCall' = lastCall
    /\ ncalls' = ncalls + 1

CallObserveCacheDel ==
    /\ ncalls < MaxCalls
    /\ \E cache \in MetricCaches, cacheType \in CacheTypes, count \in DelCounts :
          /\ ObserveCacheDel(cache, cacheType, count)
          /\ lastCall' = CallRecord("ObserveCacheDel", cache, cacheType, "",
                                    "", "", << >>, count, 0)
    /\ prevCall' = lastCall
    /\ ncalls' = ncalls + 1

CallCacheError ==
    /\ ncalls < MaxCalls
    /\ \E cacheKey \in CacheKeys, cache \in MetricCaches, cacheType \in CacheTypes,
          msg \in ErrorMsgs :
          /\ CacheError(cacheKey, cache, cacheType, msg)
          /\ lastCall' = CallRecord("CacheError", cache, cacheType, cacheKey,
                                    "", "", msg, 0, 0)
    /\ prevCall' = lastCall
    /\ ncalls' = ncalls + 1

CallObserveCacheEvent ==
    /\ ncalls < MaxCalls
    /\ \E cache \in MetricCaches, cacheType \in CacheTypes,
          event \in EventNames, reason \in Reasons :
          /\ ObserveCacheEvent(cache, cacheType, event, reason)
          /\ lastCall' = CallRecord("ObserveCacheEvent", cache, cacheType, "",
                                    event, "", reason, 0, 0)
    /\ ret' = NoReturn
    /\ prevCall' = lastCall
    /\ ncalls' = ncalls + 1
    /\ UNCHANGED <<CacheObjectOperations, CacheByteOperations, CacheObjects,
                   CacheBytes, opCalls, opPosBytes>>

CallObserveCacheSizeChange ==
    /\ ncalls < MaxCalls
    /\ \E cache \in MetricCaches, cacheType \in CacheTypes,
          byteCount \in SizeArgs, objectCount \in SizeArgs :
          /\ ObserveCacheSizeChange(cache, cacheType, byteCount, objectCount)
          /\ lastCall' = CallRecord("ObserveCacheSizeChange", cache, cacheType, "",
                                    "", "", << >>, byteCount, objectCount)
    /\ ret' = NoReturn
    /\ prevCall' = lastCall
    /\ ncalls' = ncalls + 1
    /\ UNCHANGED <<CacheObjectOperations, CacheByteOperations, CacheEvents,
                   opCalls, opPosBytes>>


----------------------------------------------------------------------------
(* Backends calling the helpers concurrently: one call per process, each    *)
(* metric update (Inc, Add, Set) one atomic step of the metrics library     *)

Procs == 1..NumProcs

OpKeyOf(call) == <<call.cache, call.cacheType, call.operation, call.status>>

EventKeyOf(call) == <<call.cache, call.cacheType, call.operation, call.reason>>

GaugeKeyOf(call) == <<call.cache, call.cacheType>>

\* The calls a process may make, each with the arguments that reach the
\* metric vectors and the position at which it starts.
ConcCalls ==
    {CallRecord("ObserveCacheOperation", cache, "memory", "", "get", "hit", << >>, b, 0) :
        cache \in MetricCaches, b \in {0, 2}}
    \cup {CallRecord("ObserveCacheMiss", "c1", "memory", "k1", "get", "miss", << >>, 0, 0)}
    \cup {CallRecord("ObserveCacheDel", "c1", "memory", "", "del", "none", << >>, n, 0) :
        n \in {0, 2}}
    \cup {CallRecord("CacheError", "c1", "memory", "k1", "error", "", ClosedMsg, 0, 0)}
    \cup {CallRecord("ObserveCacheEvent", "c1", "memory", "", "error", "", ClosedMsg, 0, 0)}
    \cup {CallRecord("ObserveCacheSizeChange", "c1", "memory", "", "", "", << >>, n, n) :
        n \in SizeArgs}

EntryOf(call) ==
    IF call.fn \in {"ObserveCacheOperation", "ObserveCacheMiss", "ObserveCacheDel"}
    THEN "inc"
    ELSE IF call.fn \in {"CacheError", "ObserveCacheEvent"} THEN "evinc"
    ELSE "setobjects"

ProcsInit ==
    /\ ppc = [p \in Procs |-> "idle"]
    /\ pcall = [p \in Procs |-> NoCall]

\* A backend operation enters one of the helpers.
Enter(p) ==
    /\ ppc[p] = "idle"
    /\ \E call \in ConcCalls :
          /\ pcall' = [pcall EXCEPT ![p] = call]
          /\ ppc' = [ppc EXCEPT ![p] = EntryOf(call)]
    /\ UNCHANGED metricVars

\* Line 84 written as a read of the counter followed by a write: the write
\* overwrites the increments of the calls still in progress.
OpIncLost(p) ==
    /\ ppc[p] = "inc"
    /\ CacheObjectOperations' =
          [CacheObjectOperations EXCEPT ![OpKeyOf(pcall[p])] =
              1 + Cardinality({q \in Procs \ {p} :
                                  /\ ppc[q] = "done"
                                  /\ EntryOf(pcall[q]) = "inc"
                                  /\ OpKeyOf(pcall[q]) = OpKeyOf(pcall[p])})]
    /\ ppc' = [ppc EXCEPT ![p] = IF pcall[p].n1 > 0 THEN "add" ELSE "done"]
    /\ UNCHANGED <<CacheByteOperations, CacheEvents, CacheObjects, CacheBytes, pcall>>

\* metrics.CacheObjectOperations.WithLabelValues(...).Inc(); if bytes > 0
OpInc(p) ==
    /\ ppc[p] = "inc"
    /\ CacheObjectOperations' =
          [CacheObjectOperations EXCEPT ![OpKeyOf(pcall[p])] = @ + 1]
    /\ ppc' = [ppc EXCEPT ![p] = IF pcall[p].n1 > 0 THEN "add" ELSE "done"]
    /\ UNCHANGED <<CacheByteOperations, CacheEvents, CacheObjects, CacheBytes, pcall>>

\* metrics.CacheByteOperations.WithLabelValues(...).Add(float64(bytes))
OpAdd(p) ==
    /\ ppc[p] = "add"
    /\ CacheByteOperations' =
          [CacheByteOperations EXCEPT ![OpKeyOf(pcall[p])] = @ + pcall[p].n1]
    /\ ppc' = [ppc EXCEPT ![p] = "done"]
    /\ UNCHANGED <<CacheObjectOperations, CacheEvents, CacheObjects, CacheBytes, pcall>>

\* metrics.CacheEvents.WithLabelValues(...).Inc()
EventInc(p) ==
    /\ ppc[p] = "evinc"
    /\ CacheEvents' = [CacheEvents EXCEPT ![EventKeyOf(pcall[p])] = @ + 1]
    /\ ppc' = [ppc EXCEPT ![p] = "done"]
    /\ UNCHANGED <<CacheObjectOperations, CacheByteOperations, CacheObjects,
                   CacheBytes, pcall>>

\* metrics.CacheObjects.WithLabelValues(cache, cacheType).Set(float64(objectCount))
SetObjects(p) ==
    /\ ppc[p] = "setobjects"
    /\ CacheObjects' = [CacheObjects EXCEPT ![GaugeKeyOf(pcall[p])] = pcall[p].n2]
    /\ ppc' = [ppc EXCEPT ![p] = "setbytes"]
    /\ UNCHANGED <<CacheObjectOperations, CacheByteOperations, CacheEvents,
                   CacheBytes, pcall>>

\* metrics.CacheBytes.WithLabelValues(cache, cacheType).Set(float64(byteCount))
SetBytes(p) ==
    /\ ppc[p] = "setbytes"
    /\ CacheBytes' = [CacheBytes EXCEPT ![GaugeKeyOf(pcall[p])] = pcall[p].n1]
    /\ ppc' = [ppc EXCEPT ![p] = "done"]
    /\ UNCHANGED <<CacheObjectOperations, CacheByteOperations, CacheEvents,
                   CacheObjects, pcall>>

----------------------------------------------------------------------------
(* The origin type dispatch applied to one type string *)

ToUpperChar(ch) ==
    IF \E i \in 1..Len(LowerChars) : LowerChars[i] = ch
    THEN UpperChars[CHOOSE i \in 1..Len(LowerChars) : LowerChars[i] = ch]
    ELSE ch

RECURSIVE Casings(_)
Casings(s) ==
    IF s = << >> THEN {<< >>}
    ELSE {<<ch>> \o rest : ch \in {Head(s), ToUpperChar(Head(s))},
                           rest \in Casings(Tail(s))}

InfluxPrefix == <<"i","n","f","l","u","x">>

TypeInputs ==
    Casings(OtPrometheus) \cup Casings(OtInfluxDb) \cup Casings(InfluxPrefix)
        \cup Casings(TestType) \cup {<< >>}

TypeInit ==
    /\ typeIn = << >>
    /\ selected = "unset"

\* switch strings.ToLower(o.Type) on one origin's type.
SelectVariant ==
    /\ selected = "unset"
    /\ selected' = ClientVariant(typeIn)
    /\ UNCHANGED typeIn

----------------------------------------------------------------------------
(* Specifications *)

\* The state registration leaves for origin a (default type, cache default).
QuiescentClient ==
    [Variant |-> "prometheus", Name |-> "a",
     Config |-> [Type |-> << >>, CacheName |-> "default"], Cache |-> 1]

RegQuiescent ==
    /\ Origins = [n \in {"a"} |-> [Type |-> << >>, CacheName |-> "default"]]
    /\ pending = {}
    /\ pc = "done"
    /\ k = "a"
    /\ c = 1
    /\ err = FALSE
    /\ client = QuiescentClient
    /\ Clients = [n \in {"a"} |-> QuiescentClient]
    /\ routes = [n \in {"a"} |-> 1]
    /\ trace = << <<"resolve", "a">>, <<"construct", "a">>,
                  <<"routes", "a">>, <<"record", "a">> >>

\* Registration at startup.
Init == RegInit /\ TypeInit /\ MetricsInit /\ CallsInit /\ ProcsInit

Next ==
    \/ RangeNext /\ UNCHANGED <<typeVars, metricVars, callVars, procVars>>
    \/ RangeEnd /\ UNCHANGED <<typeVars, metricVars, callVars, procVars>>
    \/ ResolveCache /\ UNCHANGED <<typeVars, metricVars, callVars, procVars>>
    \/ SelectClient /\ UNCHANGED <<typeVars, metricVars, callVars, procVars>>
    \/ RegisterRoutes /\ UNCHANGED <<typeVars, metricVars, callVars, procVars>>
    \/ RecordClient /\ UNCHANGED <<typeVars, metricVars, callVars, procVars>>

Spec == Init /\ [][Next]_vars

\* RegisterProxyRoutes runs on one goroutine that keeps running until it
\* returns, exits or panics.
FairSpec == Spec /\ WF_vars(Next)

\* The type dispatch over every casing of the type strings.
InitType ==
    /\ RegQuiescent /\ MetricsInit /\ CallsInit /\ ProcsInit
    /\ typeIn \in TypeInputs
    /\ selected = "unset"

NextType == SelectVariant /\ UNCHANGED <<regVars, metricVars, callVars, procVars>>

SpecType == InitType /\ [][NextType]_vars

\* A backend calling the helpers one after the other.
InitMetrics == RegQuiescent /\ TypeInit /\ MetricsInit /\ CallsInit /\ ProcsInit

NextMetrics ==
    \/ CallObserveCacheOperation /\ UNCHANGED <<regVars, typeVars, procVars>>
    \/ CallObserveCacheMiss /\ UNCHANGED <<regVars, typeVars, procVars>>
    \/ CallObserveCacheDel /\ UNCHANGED <<regVars, typeVars, procVars>>
    \/ CallCacheError /\ UNCHANGED <<regVars, typeVars, procVars>>
    \/ CallObserveCacheEvent /\ UNCHANGED <<regVars, typeVars, procVars>>
    \/ CallObserveCacheSizeChange /\ UNCHANGED <<regVars, typeVars, procVars>>

SpecMetrics == InitMetrics /\ [][NextMetrics]_vars

\* Backends calling the helpers concurrently.
InitConc == RegQuiescent /\ TypeInit /\ MetricsInit /\ CallsInit /\ ProcsInit

NextConc ==
    \E p \in Procs :
        \/ Enter(p) /\ UNCHANGED <<regVars, typeVars, callVars>>
        \/ OpInc(p) /\ UNCHANGED <<regVars, typeVars, callVars>>
        \/ OpAdd(p) /\ UNCHANGED <<regVars, typeVars, callVars>>
        \/ EventInc(p) /\ UNCHANGED <<regVars, typeVars, callVars>>
        \/ SetObjects(p) /\ UNCHANGED <<regVars, typeVars, callVars>>
        \/ SetBytes(p) /\ UNCHANGED <<regVars, typeVars, callVars>>

SpecConc == InitConc /\ [][NextConc]_vars


----------------------------------------------------------------------------
(* Properties *)

\* The letters of s and t agree up to case.
SameLetters(s, t) ==
    /\ Len(s) = Len(t)
    /\ \A i \in 1..Len(s) :
          \/ s[i] = t[i]
          \/ ToUpperChar(s[i]) = t[i]
          \/ s[i] = ToUpperChar(t[i])

Visited(n, step) == \E i \in 1..Len(trace) : trace[i] = <<step, n>>

Unresolvable(n) == GetCache(Origins[n].CacheName).err

Unrecognized(n) == ToLower(Origins[n].Type) \notin {OtPrometheus, OtInfluxDb, << >>}

RECURSIVE SumOver(_, _)
SumOver(f, S) ==
    IF S = {} THEN 0
    ELSE LET x == CHOOSE y \in S : TRUE IN f[x] + SumOver(f, S \ {x})

\* C1: an origin whose cache name GetCache does not resolve ends registration
\* fatally at its resolve step: no client is constructed for it,
\* RegisterRoutes is never invoked for it and proxy.Clients never holds it.
UnresolvedCacheIsFatal ==
    \A n \in DOMAIN Origins :
        Unresolvable(n) =>
            /\ routes[n] = 0
            /\ n \notin DOMAIN Clients
            /\ ~Visited(n, "construct")
            /\ ~Visited(n, "routes")
            /\ Visited(n, "resolve") => (pc = "fatal" /\ k = n /\ client = NilClient)

UnresolvedCacheWitness ==
    /\ pc = "fatal"
    /\ Unresolvable(k)
    /\ Visited(k, "resolve")
    /\ DOMAIN Clients # {}

\* C2: an origin of an unrecognized type is skipped silently: no client and
\* no route for it, and registration does not crash because of it.
UnrecognizedTypeSkipped ==
    \A n \in DOMAIN Origins :
        Unrecognized(n) =>
            /\ n \notin DOMAIN Clients
            /\ routes[n] = 0
            /\ ~(k = n /\ pc = "panic")

\* C3: the variant selected depends on the type's letters only, not their
\* case: every casing of the Prometheus type and the empty string select the
\* Prometheus client, every casing of the InfluxDB type the InfluxDB client,
\* and two types that differ in case only select the same variant.
TypeDispatchIgnoresCase ==
    selected # "unset" =>
        /\ (SameLetters(typeIn, OtPrometheus) \/ typeIn = << >>) => selected = "prometheus"
        /\ SameLetters(typeIn, OtInfluxDb) => selected = "influxdb"
        /\ selected = ClientVariant(ToLower(typeIn))
        /\ \A u \in TypeInputs : SameLetters(u, typeIn) => ClientVariant(u) = selected

TypeDispatchWitness ==
    /\ selected = "influxdb"
    /\ typeIn # OtInfluxDb
    /\ typeIn[1] = "I"

\* C4: after registration completes every client's Cache is the instance
\* GetCache returns for its origin's CacheName, so clients of origins with
\* the same CacheName hold the same instance, whatever their types.
SharedCacheByIdentity ==
    pc = "done" =>
        /\ \A n \in DOMAIN Clients :
              /\ Clients[n].Cache = GetCache(Origins[n].CacheName).c
              /\ Clients[n].Cache # NilCache
        /\ \A n, m \in DOMAIN Clients :
              Origins[n].CacheName = Origins[m].CacheName =>
                  Clients[n].Cache = Clients[m].Cache

SharedCacheWitness ==
    /\ pc = "done"
    /\ \E n, m \in DOMAIN Clients :
          /\ n # m
          /\ Origins[n].CacheName = Origins[m].CacheName
          /\ Clients[n].Variant # Clients[m].Variant

HelperStep(fn) == ncalls' = ncalls + 1 /\ lastCall'.fn = fn

DelTotal(counts, cache, cacheType) ==
    SumOver(counts, {key \in OpKeys :
                        key[1] = cache /\ key[2] = cacheType /\ key[3] = "del"})

OperationCountsCalls ==
    /\ [](\A key \in OpKeys :
             /\ CacheObjectOperations[key] = opCalls[key]
             /\ CacheByteOperations[key] = opPosBytes[key])
    /\ [][HelperStep("ObserveCacheOperation") =>
             /\ CacheObjectOperations' =
                   [CacheObjectOperations EXCEPT ![OpKeyOf(lastCall')] = @ + 1]
             /\ CacheByteOperations' =
                   IF lastCall'.n1 > 0
                   THEN [CacheByteOperations EXCEPT ![OpKeyOf(lastCall')] = @ + lastCall'.n1]
                   ELSE CacheByteOperations
             /\ UNCHANGED <<CacheEvents, CacheObjects, CacheBytes>>]_vars

OperationCountsWitness ==
    /\ prevCall.fn = "ObserveCacheOperation"
    /\ prevCall.n1 = 2
    /\ lastCall.fn = "ObserveCacheOperation"
    /\ lastCall.n1 = -1
    /\ OpKeyOf(lastCall) = OpKeyOf(prevCall)
    /\ CacheObjectOperations[OpKeyOf(lastCall)] = 2
    /\ CacheByteOperations[OpKeyOf(lastCall)] = 2

\* C7: ObserveCacheSizeChange sets the two gauges of (cache, cacheType) to the
\* counts of the call, whatever they held; no other gauge and no counter
\* changes; no other helper changes a gauge; repeating the call changes
\* nothing.
SizeChangeSets ==
    /\ [](lastCall.fn = "ObserveCacheSizeChange" =>
             /\ CacheObjects[GaugeKeyOf(lastCall)] = lastCall.n2
             /\ CacheBytes[GaugeKeyOf(lastCall)] = lastCall.n1)
    /\ [][/\ HelperStep("ObserveCacheSizeChange") =>
                /\ CacheObjects' =
                      [CacheObjects EXCEPT ![GaugeKeyOf(lastCall')] = lastCall'.n2]
                /\ CacheBytes' =
                      [CacheBytes EXCEPT ![GaugeKeyOf(lastCall')] = lastCall'.n1]
                /\ UNCHANGED <<CacheObjectOperations, CacheByteOperations, CacheEvents>>
          /\ (HelperStep("ObserveCacheSizeChange") /\ lastCall' = lastCall) =>
                UNCHANGED metricVars
          /\ ~HelperStep("ObserveCacheSizeChange") =>
                UNCHANGED <<CacheObjects, CacheBytes>>]_vars

SizeChangeWitness ==
    /\ prevCall.fn = "ObserveCacheSizeChange"
    /\ lastCall.fn = "ObserveCacheSizeChange"
    /\ GaugeKeyOf(prevCall) = GaugeKeyOf(lastCall)
    /\ prevCall.n1 = 2 /\ prevCall.n2 = 2
    /\ lastCall.n1 = 2 /\ lastCall.n2 = 0
    /\ CacheBytes[GaugeKeyOf(lastCall)] = 2
    /\ CacheObjects[GaugeKeyOf(lastCall)] = 0

\* C8: ObserveCacheMiss raises only the operation counter of
\* (cacheName, cacheType, "get", "miss"), by 1, and no byte counter;
\* CacheError raises only the event counter of
\* (cacheName, cacheType, "error", msg), by 1; each returns nil data and a
\* non-nil error.
FailureHelpersReport ==
    [][/\ HelperStep("ObserveCacheMiss") =>
             /\ CacheObjectOperations' =
                   [CacheObjectOperations EXCEPT
                       ![<<lastCall'.cache, lastCall'.cacheType, "get", "miss">>] = @ + 1]
             /\ UNCHANGED <<CacheByteOperations, CacheEvents, CacheObjects, CacheBytes>>
             /\ ~ret'.void /\ ret'.dataNil /\ ~ret'.err.nil
       /\ HelperStep("CacheError") =>
             /\ CacheEvents' =
                   [CacheEvents EXCEPT
                       ![<<lastCall'.cache, lastCall'.cacheType, "error",
                           lastCall'.reason>>] = @ + 1]
             /\ UNCHANGED <<CacheObjectOperations, CacheByteOperations,
                            CacheObjects, CacheBytes>>
             /\ ~ret'.void /\ ret'.dataNil /\ ~ret'.err.nil]_vars

FailureHelpersWitness ==
    /\ prevCall.fn = "ObserveCacheMiss"
    /\ lastCall.fn = "CacheError"
    /\ ~ret.err.nil
    /\ SumOver(CacheObjectOperations, OpKeys) = 1
    /\ SumOver(CacheEvents, EventKeys) = 1

PastInc(p) == EntryOf(pcall[p]) = "inc" /\ ppc[p] \in {"add", "done"}

BytesAdded(p) ==
    IF EntryOf(pcall[p]) = "inc" /\ ppc[p] = "done" /\ pcall[p].n1 > 0
    THEN pcall[p].n1 ELSE 0

AllResolvableAndRecognized ==
    \A n \in DOMAIN Origins : ~Unresolvable(n) /\ ~Unrecognized(n)

StepOrder == <<"resolve", "construct", "routes", "record">>

StepsOf(n) == SelectSeq(trace, LAMBDA e : e[2] = n)

ExpectedClient(n) ==
    [Variant |-> IF SameLetters(Origins[n].Type, OtInfluxDb)
                 THEN "influxdb" ELSE "prometheus",
     Name |-> n, Config |-> Origins[n], Cache |-> CacheRegistry[Origins[n].CacheName]]

RegistrationOrdered ==
    /\ \A n \in DOMAIN Origins :
          /\ Len(StepsOf(n)) <= Len(StepOrder)
          /\ \A i \in 1..Len(StepsOf(n)) : StepsOf(n)[i][1] = StepOrder[i]
          /\ routes[n] <= 1
          /\ n \in DOMAIN Clients => (routes[n] = 1 /\ Clients[n].Name = n)
    /\ pc = "done" =>
          /\ \A n \in DOMAIN Origins : routes[n] = 1
          /\ Clients = [n \in DOMAIN Origins |-> ExpectedClient(n)]

\* C10: with every origin's cache resolvable and type recognized or empty,
\* RegisterProxyRoutes terminates in every iteration order; each origin's
\* steps run in the order resolve, construct, RegisterRoutes, record;
\* RegisterRoutes is invoked once per origin; and proxy.Clients ends mapping
\* exactly the configured names, each to the client named after it.
RegistrationCompletes ==
    /\ [](AllResolvableAndRecognized => RegistrationOrdered)
    /\ (AllResolvableAndRecognized ~> pc = "done")

RegistrationCompletesWitness ==
    /\ AllResolvableAndRecognized
    /\ pc = "done"
    /\ Cardinality(DOMAIN Clients) >= 2
    /\ trace[1][2] = "b"


====
